---- MODULE Spec2Model ----
(***************************************************************************)
(* A model of the tag-based chatbot of oxycsbot.py: the ChatBot framework  *)
(* (go_to_state, respond, finish, _get_tags) and the OxyCSBot script       *)
(* (STATES, TAGS, the respond_from_* handlers and on_enter_* / finish_*    *)
(* producers).                                                             *)
(*                                                                         *)
(* Python strings that the code inspects (messages and phrases) are        *)
(* sequences of one-character strings; identifiers (states, tags, manners) *)
(* are TLA+ strings.                                                       *)
(***************************************************************************)
EXTENDS Naturals, Sequences, FiniteSets, TLC

\* ------------------------------------------------------------------------
\* Bounds of the model
\* ------------------------------------------------------------------------

\* The longest message fed to respond, in words of Vocabulary.
MaxWords == 2

\* The cap of the counter of consecutive unrecognized utterances.
MaxRun == 4

\* The cap of try_count when go_to_state is called directly, where nothing
\* resets the counter.
MaxTryCount == 3

\* ------------------------------------------------------------------------
\* str
\* ------------------------------------------------------------------------

LowerCase == <<"a","b","c","d","e","f","g","h","i","j","k","l","m",
               "n","o","p","q","r","s","t","u","v","w","x","y","z">>

UpperCase == <<"A","B","C","D","E","F","G","H","I","J","K","L","M",
               "N","O","P","Q","R","S","T","U","V","W","X","Y","Z">>

Digits == {"0","1","2","3","4","5","6","7","8","9"}

Range(f) == {f[i] : i \in DOMAIN f}

\* The lower-case letter of each upper-case letter.
ToLower == [c \in Range(UpperCase) |->
               LowerCase[CHOOSE i \in DOMAIN UpperCase : UpperCase[i] = c]] @@ << >>

\* str.lower() on one character, and on a string.
lower_char(c) == IF c \in DOMAIN ToLower THEN ToLower[c] ELSE c

lower(s) == [i \in DOMAIN s |-> lower_char(s[i])]

\* ' '.join(words)
RECURSIVE join(_)
join(words) ==
    IF words = <<>> THEN <<>>
    ELSE IF Len(words) = 1 THEN words[1]
    ELSE words[1] \o <<" ">> \o join(Tail(words))

\* ------------------------------------------------------------------------
\* re: the pattern \b + phrase + \b, for a phrase without metacharacters
\* ------------------------------------------------------------------------

\* \w of the re module.
WordChars == Range(LowerCase) \cup Range(UpperCase) \cup Digits \cup {"_"}

IsWordChar(c) == c \in WordChars

\* \b at position p of msg, the place between msg[p-1] and msg[p]: exactly one
\* of the two sides is a word character (outside the string counts as none).
word_boundary(msg, p) ==
    LET before == p > 1 /\ IsWordChar(msg[p - 1])
        after  == p <= Len(msg) /\ IsWordChar(msg[p])
    IN  before # after

\* re.search(pattern, msg), the pattern without \b on its sides: pattern
\* occurs somewhere in msg.
re_search(pattern, msg) ==
    \E i \in 1..(Len(msg) + 1) :
        /\ i + Len(pattern) - 1 <= Len(msg)
        /\ \A k \in DOMAIN pattern : msg[i + k - 1] = pattern[k]

\* re.search(r'\b' + pattern + r'\b', msg): pattern occurs somewhere in msg
\* with a word boundary on each side (an empty pattern matches at any word
\* boundary). The places tried are those where the first character matches.
re_search_b(pattern, msg) ==
    IF pattern = << >>
    THEN \E i \in 1..(Len(msg) + 1) : word_boundary(msg, i)
    ELSE \E i \in { i \in DOMAIN msg : msg[i] = pattern[1] } :
            /\ i + Len(pattern) - 1 <= Len(msg)
            /\ \A k \in DOMAIN pattern : msg[i + k - 1] = pattern[k]
            /\ word_boundary(msg, i)
            /\ word_boundary(msg, i + Len(pattern))

\* ------------------------------------------------------------------------
\* dict and Counter
\* ------------------------------------------------------------------------

\* A dict is a sequence of <<key, value>> items with distinct keys, in
\* insertion order. The dict a display {k1: v1, k2: v2, ...} builds, items
\* taken left to right: a key written again keeps its first place and takes
\* the last value written for it.
dict_display(items) ==
    LET first(i) == \A j \in 1..(i - 1) : items[j][1] # items[i][1]
        last(i)  == CHOOSE j \in DOMAIN items :
                        /\ items[j][1] = items[i][1]
                        /\ \A k \in (j + 1)..Len(items) : items[k][1] # items[i][1]
        places   == SelectSeq([i \in DOMAIN items |-> i], first)
    IN  [n \in DOMAIN places |->
            <<items[places[n]][1], items[last(places[n])][2]>>]

\* A Counter is a function from the keys counted so far to their counts. The
\* Counter after counter.update(lists[1]); counter.update(lists[2]); ... on
\* an empty Counter: each key counts its occurrences in the lists.
counter_of(lists) ==
    LET occurrences == UNION { { <<i, j>> : j \in DOMAIN lists[i] } : i \in DOMAIN lists }
        keys        == { lists[o[1]][o[2]] : o \in occurrences }
    IN  [k \in keys |->
            Cardinality({ o \in occurrences : lists[o[1]][o[2]] = k })]

\* ------------------------------------------------------------------------
\* OxyCSBot: class-level configuration
\* ------------------------------------------------------------------------

STATES == <<
    "waiting",
    "specific_faculty",
    "unknown_faculty",
    "unrecognized_faculty",
    "why_sad",
    "talk_to_professors",
    "other_factors",
    "greeting",
    "clubs",
    "suicidal_response_friends",
    "anxious_breathe",
    "figure_out_feelings",
    "specific_event_response",
    "confused",
    "why_not" >>

\* The TAGS display as written, item by item (three phrases are written twice).
TAGS_display == <<
    <<<<"h","e","l","p">>, "help">>,
    <<<<"h","i">>, "hi">>,
    <<<<"h","e","l","l","o">>, "hi">>,
    <<<<"h","o","w","d","y">>, "hi">>,
    <<<<"w","h","a","t","'","s"," ","u","p">>, "hi">>,
    <<<<"s","a","d">>, "sad">>,
    <<<<"h","a","t","e">>, "sad">>,
    <<<<"d","e","p","r","e","s","s","e","d">>, "sad">>,
    <<<<"d","i","s","a","p","p","o","i","n","t","e","d">>, "sad">>,
    <<<<"m","i","s","s">>, "sad">>,
    <<<<"h","o","p","e","l","e","s","s">>, "sad">>,
    <<<<"d","i","s","i","n","t","e","r","e","s","t","e","d">>, "sad">>,
    <<<<"e","m","p","t","y">>, "sad">>,
    <<<<"l","i","f","e"," ","i","s"," ","m","e","a","n","i","n","g","l","e","s","s">>, "sad">>,
    <<<<"n","o"," ","p","o","i","n","t"," ","i","n">>, "sad">>,
    <<<<"n","o","t"," ","g","o","o","d">>, "sad">>,
    <<<<"e","m","o","t","i","o","n","a","l">>, "sad">>,
    <<<<"f","u","t","u","r","e">>, "anxious">>,
    <<<<"c","a","r","e","e","r">>, "anxious">>,
    <<<<"a","n","x","i","o","u","s">>, "anxious">>,
    <<<<"w","o","r","r","i","e","d">>, "anxious">>,
    <<<<"n","e","r","v","o","u","s">>, "anxious">>,
    <<<<"r","e","s","t","l","e","s","s">>, "anxious">>,
    <<<<"o","v","e","r","w","h","e","l","m","e","d">>, "anxious">>,
    <<<<"a","g","i","t","a","t","e","d">>, "anxious">>,
    <<<<"l","i","f","e">>, "anxious">>,
    <<<<"u","n","e","a","s","y">>, "anxious">>,
    <<<<"t","r","o","u","b","l","e","d">>, "anxious">>,
    <<<<"t","e","s","t">>, "failing academics">>,
    <<<<"m","i","d","t","e","r","m">>, "failing academics">>,
    <<<<"e","x","a","m","s">>, "failing academics">>,
    <<<<"g","p","a">>, "failing academics">>,
    <<<<"c","l","a","s","s","e","s">>, "failing academics">>,
    <<<<"d","i","s","a","p","p","o","i","n","t","e","d">>, "failing academics">>,
    <<<<"w","o","r","k">>, "failing academics">>,
    <<<<"a","s","s","i","g","n","m","e","n","t">>, "failing academics">>,
    <<<<"g","r","a","d","e","s">>, "failing academics">>,
    <<<<"f","r","u","s","t","r","a","t","e","d">>, "failing academics">>,
    <<<<"a","n","n","o","y","e","d">>, "failing academics">>,
    <<<<"e","f","f","o","r","t","s">>, "failing academics">>,
    <<<<"f","a","i","l","i","n","g">>, "failing academics">>,
    <<<<"q","u","i","t"," ","s","c","h","o","o","l">>, "failing academics">>,
    <<<<"d","i","s","c","o","n","n","e","c","t","e","d">>, "social isolation">>,
    <<<<"l","o","n","e","l","y">>, "social isolation">>,
    <<<<"n","o"," ","f","r","i","e","n","d","s">>, "social isolation">>,
    <<<<"h","o","m","e","s","i","c","k">>, "social isolation">>,
    <<<<"d","o","n","'","t"," ","h","a","v","e">>, "social isolation">>,
    <<<<"a","l","o","n","e">>, "social isolation">>,
    <<<<"f","r","i","e","n","d","l","e","s","s">>, "social isolation">>,
    <<<<"a","b","a","n","d","o","n","e","d">>, "social isolation">>,
    <<<<"c","a","r","e"," ","a","b","o","u","t"," ","m","e">>, "social isolation">>,
    <<<<"n","o","t"," ","c","a","r","e","d"," ","f","o","r">>, "social isolation">>,
    <<<<"d","i","e">>, "suicidal">>,
    <<<<"k","i","l","l"," ","m","y","s","e","l","f">>, "suicidal">>,
    <<<<"k","i","l","l","e","d">>, "suicidal">>,
    <<<<"l","i","f","e">>, "suicidal">>,
    <<<<"d","e","a","t","h">>, "suicidal">>,
    <<<<"e","n","d">>, "suicidal">>,
    <<<<"c","o","m","m","i","t">>, "suicidal">>,
    <<<<"u","s","e","l","e","s","s">>, "suicidal">>,
    <<<<"w","o","r","t","h","l","e","s","s">>, "suicidal">>,
    <<<<"n","o"," ","p","u","r","p","o","s","e">>, "suicidal">>,
    <<<<"a","l","i","v","e">>, "suicidal">>,
    <<<<"s","i","c","k">>, "health issues">>,
    <<<<"d","o","n","'","t"," ","f","e","e","l"," ","w","e","l","l">>, "health issues">>,
    <<<<"d","i","z","z","y">>, "health issues">>,
    <<<<"t","i","r","e","d">>, "health issues">>,
    <<<<"m","i","g","r","a","i","n","e">>, "health issues">>,
    <<<<"n","a","u","s","e","a">>, "health issues">>,
    <<<<"n","a","u","s","e","o","u","s">>, "health issues">>,
    <<<<"a","c","h","e","s">>, "health issues">>,
    <<<<"s","t","o","m","a","c","h","a","c","h","e">>, "health issues">>,
    <<<<"h","a","r","d"," ","t","i","m","e">>, "difficult courses">>,
    <<<<"d","o","n","'","t"," ","u","n","d","e","r","s","t","a","n","d">>, "difficult courses">>,
    <<<<"m","a","t","e","r","i","a","l">>, "difficult courses">>,
    <<<<"h","a","r","d">>, "difficult courses">>,
    <<<<"d","i","f","f","i","c","u","l","t">>, "difficult courses">>,
    <<<<"I","'","m"," ","b","e","h","i","n","d">>, "difficult courses">>,
    <<<<"t","r","o","u","b","l","e">>, "difficult courses">>,
    <<<<"h","e","l","p","l","e","s","s">>, "difficult courses">>,
    <<<<"f","a","i","l","i","n","g">>, "difficult courses">>,
    <<<<"t","o","o"," ","m","u","c","h">>, "courses overload">>,
    <<<<"o","v","e","r","w","h","e","l","m","i","n","g">>, "courses overload">>,
    <<<<"o","v","e","r","w","h","e","l","m">>, "courses overload">>,
    <<<<"d","e","m","a","n","d","i","n","g">>, "courses overload">>,
    <<<<"s","o"," ","m","u","c","h">>, "courses overload">>,
    <<<<"b","u","r","d","e","n","e","d">>, "courses overload">>,
    <<<<"e","x","h","a","u","s","t","e","d">>, "courses overload">>,
    <<<<"e","x","h","a","u","s","t","i","n","g">>, "courses overload">>,
    <<<<"e","x","c","e","s","s","i","v","e">>, "courses overload">>,
    <<<<"o","v","e","r","l","o","a","d","i","n","g">>, "courses overload">>,
    <<<<"c","r","a","z","y">>, "courses overload">>,
    <<<<"i","n","t","e","n","s","e">>, "courses overload">>,
    <<<<"s","o"," ","d","o","n","e">>, "courses overload">>,
    <<<<"h","a","p","p","e","n","e","d">>, "specific events">>,
    <<<<"f","i","g","h","t">>, "specific events">>,
    <<<<"f","o","u","g","h","t">>, "specific events">>,
    <<<<"t","o","l","d">>, "specific events">>,
    <<<<"s","a","i","d">>, "specific events">>,
    <<<<"t","h","e","n">>, "specific events">>,
    <<<<"t","o","d","a","y">>, "specific events">>,
    <<<<"y","e","s","t","e","r","d","a","y">>, "specific events">>,
    <<<<"o","c","c","u","r","e","d">>, "specific events">>,
    <<<<"r","e","c","e","n","t","l","y">>, "specific events">>,
    <<<<"k","a","t","h","r","y","n">>, "kathryn">>,
    <<<<"l","e","o","n","a","r","d">>, "kathryn">>,
    <<<<"j","u","s","t","i","n">>, "justin">>,
    <<<<"l","i">>, "justin">>,
    <<<<"j","e","f","f">>, "jeff">>,
    <<<<"m","i","l","l","e","r">>, "jeff">>,
    <<<<"c","e","l","i","a">>, "celia">>,
    <<<<"h","s","i","n","g","-","h","a","u">>, "hsing-hau">>,
    <<<<"t","h","a","n","k","s">>, "thanks">>,
    <<<<"t","h","a","n","k"," ","y","o","u">>, "thanks">>,
    <<<<"t","y">>, "thanks">>,
    <<<<"o","k">>, "success">>,
    <<<<"o","k","i","e">>, "success">>,
    <<<<"o","k","a","y">>, "success">>,
    <<<<"s","u","r","e">>, "success">>,
    <<<<"b","y","e">>, "success">>,
    <<<<"y","e","s">>, "yes">>,
    <<<<"y","a">>, "yes">>,
    <<<<"y","e","p">>, "yes">>,
    <<<<"y","e","a","h">>, "yes">>,
    <<<<"l","i","t","t","l","e"," ","b","i","t">>, "yes">>,
    <<<<"a"," ","l","i","t","t","l","e">>, "yes">>,
    <<<<"n","o","t">>, "no">>,
    <<<<"n","o">>, "no">>,
    <<<<"n","o","p","e">>, "no">>,
    <<<<"n","o","t"," ","r","e","a","l","l","y">>, "no">>,
    <<<<"n","a","h">>, "no">>,
    <<<<"n","o"," ","t","h","a","n","k","s">>, "no">>,
    <<<<"d","o","n","'","t"," ","w","a","n","t"," ","t","o">>, "no">>,
    <<<<"w","a","n","t"," ","t","o">>, "yes">>,
    <<<<"i","d","k">>, "idk">>,
    <<<<"n","o","t"," ","s","u","r","e">>, "idk">>,
    <<<<"d","o","n","'","t"," ","k","n","o","w">>, "idk">>,
    <<<<"g","o","o","d">>, "good">>,
    <<<<"g","r","e","a","t">>, "good">>,
    <<<<"w","e","l","l">>, "good">>,
    <<<<"h","a","p","p","y">>, "good">>,
    <<<<"f","i","n","e">>, "good">>
>>

\* A str and a list as values that isinstance tells apart.
str(s) == [type |-> "str", value |-> s]

list(items) == [type |-> "list", value |-> items]

\* The class attribute TAGS once the display is evaluated: every value of the
\* display is a str.
TAGS_class ==
    LET d == dict_display(TAGS_display)
    IN  [i \in DOMAIN d |-> <<d[i][1], str(d[i][2])>>]

PROFESSORS == << "celia", "hsing-hau", "jeff", "justin", "kathryn" >>

\* _check_tags with the isinstance test left out: every value is put into
\* a new list, a list too.
_check_tags_wraps_lists(tags_dict) ==
    [i \in DOMAIN tags_dict |-> <<tags_dict[i][1], list(<<tags_dict[i][2]>>)>>]

\* _check_tags, run by __init__ on the dict of the class (self.TAGS is the
\* class attribute, changed in place): a tag given as a str becomes a
\* one-element list, a list stays as it is.
_check_tags(tags_dict) ==
    [i \in DOMAIN tags_dict |->
        IF tags_dict[i][2].type = "str"
        THEN <<tags_dict[i][1], list(<<tags_dict[i][2]>>)>>
        ELSE tags_dict[i]]

\* The dict of the class after n bots have been constructed.
RECURSIVE TAGS_after(_)
TAGS_after(n) ==
    IF n = 0 THEN TAGS_class ELSE _check_tags(TAGS_after(n - 1)) @@ << >>

\* self.TAGS of the first bot constructed, at its construction.
TAGS == TAGS_after(1)

\* Whether the dict of the class after n constructions is TAGS, for one bot
\* and for two.
TAGS_same == [n \in {1, 2} |-> TAGS_after(n) = TAGS] @@ << >>

\* phrase.lower() for each phrase of self.TAGS, in the order of the dict.
phrase_lower == [i \in DOMAIN TAGS |-> lower(TAGS[i][1]) @@ << >>] @@ << >>

\* found_phrases with a phrase found once for each place of the message
\* where it matches (re.findall in place of re.search).
found_phrases_every_occurrence(message) ==
    LET msg   == lower(message) @@ << >>
        L     == Len(msg)
        at(p) == <<((p - 1) \div L) + 1, ((p - 1) % L) + 1>>
        matches(p) ==
            LET pattern == phrase_lower[at(p)[1]]
                i       == at(p)[2]
            IN  /\ i + Len(pattern) - 1 <= L
                /\ \A k \in DOMAIN pattern : msg[i + k - 1] = pattern[k]
                /\ word_boundary(msg, i)
                /\ word_boundary(msg, i + Len(pattern))
        places == SelectSeq([p \in 1..(Len(TAGS) * L) |-> p], matches)
    IN  [n \in DOMAIN places |-> at(places[n])[1]]

\* The phrases of TAGS that re.search finds in the lower-cased message, by
\* their places in the dict.
found_phrases(message) ==
    LET msg == lower(message) @@ << >>
    IN  SelectSeq([i \in DOMAIN TAGS |-> i],
                  LAMBDA i : re_search_b(phrase_lower[i], msg))

\* counter.update(tags) raises TypeError for an element that is a list
\* (unhashable): whether _get_tags(message) does, on the dict tags_dict,
\* which has the phrases of TAGS.
raises_TypeError(tags_dict, message) ==
    \E i \in Range(found_phrases(message)) :
        \E k \in DOMAIN tags_dict[i][2].value :
            tags_dict[i][2].value[k].type = "list"

\* _get_tags without the test of re.search: one update per phrase of the
\* dict, found in the message or not.
_get_tags_on_every_phrase(tags_dict, message) ==
    counter_of([n \in DOMAIN tags_dict |->
                   [k \in DOMAIN tags_dict[n][2].value |->
                       tags_dict[n][2].value[k].value]])

\* The Counter _get_tags(message) returns on the dict tags_dict, when it does
\* not raise: the tags of every phrase that re.search finds in the
\* lower-cased message, one update per found phrase.
_get_tags_on(tags_dict, message) ==
    LET found == found_phrases(message)
    IN  counter_of([n \in DOMAIN found |->
                       [k \in DOMAIN tags_dict[found[n]][2].value |->
                           tags_dict[found[n]][2].value[k].value]])

\* _get_tags(message) of the first bot constructed.
_get_tags(message) == _get_tags_on(TAGS, message)

\* ------------------------------------------------------------------------
\* The messages of the model
\* ------------------------------------------------------------------------

Vocabulary == {
    <<"a","s","d","f">>,
    <<"h","i">>,
    <<"s","a","d">>,
    <<"l","o","n","e","l","y">>,
    <<"d","i","e">>,
    <<"a","n","x","i","o","u","s">>,
    <<"t","h","a","n","k","s">>,
    <<"i","d","k">>,
    <<"t","o","d","a","y">>,
    <<"o","k">>,
    <<"n","o">>,
    <<"y","e","s">>,
    <<"t","e","s","t">>,
    <<"g","o","o","d">>,
    <<"s","i","c","k">>,
    <<"h","a","r","d">>,
    <<"c","r","a","z","y">>,
    <<"h","e","l","p">> }

Messages ==
    { join(ws) : ws \in UNION { [1..n -> Vocabulary] : n \in 0..MaxWords } }

\* The tag counts of the messages of the model, computed once.
TagsOf == [m \in Messages |-> _get_tags(m)] @@ << >>

\* The messages of the model, each with its tag count.
Tagged == { <<TagsOf[m], m>> : m \in Messages }

\* respond reads a message through _get_tags alone: the utterances fed to it
\* are one message for each tag count a message of the model has.
Utterances ==
    { (CHOOSE p \in Tagged : p[1] = c)[2] : c \in { p[1] : p \in Tagged } }

\* The tag counts of the utterances.
UtteranceTags == [m \in Utterances |-> TagsOf[m]] @@ << >>

\* self._get_tags(message), when it does not raise; self.TAGS is the dict of
\* the class, named in self by the number of bots constructed so far. The
\* Counter is looked up when the dict is TAGS and the message one of the
\* model.
get_tags(self, message) ==
    IF ~TAGS_same[self.TAGS] THEN _get_tags_on(TAGS_after(self.TAGS), message)
    ELSE IF message \in DOMAIN UtteranceTags THEN UtteranceTags[message]
    ELSE IF message \in DOMAIN TagsOf THEN TagsOf[message]
    ELSE _get_tags(message)

\* Whether self._get_tags(message) raises TypeError (TAGS has no list in a
\* list).
get_tags_raises(self, message) ==
    /\ ~TAGS_same[self.TAGS]
    /\ raises_TypeError(TAGS_after(self.TAGS), message)

\* ------------------------------------------------------------------------
\* Values a call returns, and the frame of one respond call
\* ------------------------------------------------------------------------

\* A str is a sequence of lines, a line a tuple of strings: the wording of a
\* producer's text is one line naming the producer.
Str(text) == [type |-> "str", text |-> text]

None == [type |-> "NoneType", text |-> << >>]

Exception(name) == [type |-> "raise", text |-> << <<name>> >>]

EndMarker == << <<" ">>, <<"< Conversation has ended >">> >>

\* The frame of a respond call: the bot (self), the value returned or the
\* exception raised (ret), and the trace of the call: the go_to_state and
\* finish calls made (calls), the respond_from_* handlers run (handlers) and,
\* for each if/elif list gone through, <<state, n>> where n is the place of
\* the branch taken, 0 when no condition held (rules).
Begin(self) ==
    [self |-> self, ret |-> None, calls |-> << >>, handlers |-> << >>, rules |-> << >>]

raise(x, name) == [x EXCEPT !.ret = Exception(name)]

\* ------------------------------------------------------------------------
\* The methods OxyCSBot defines
\* ------------------------------------------------------------------------

on_enter_methods == {
    "greeting", "anxious_breathe", "suicidal_response_friends", "why_sad",
    "specific_event_response", "figure_out_feelings", "clubs", "why_not",
    "talk_to_professors", "other_factors", "confused", "specific_faculty",
    "unknown_faculty", "unrecognized_faculty" }

respond_from_methods == {
    "waiting", "greeting", "anxious_breathe", "suicidal_response_friends",
    "why_sad", "specific_event_response", "figure_out_feelings", "clubs",
    "why_not", "talk_to_professors", "other_factors", "confused",
    "specific_faculty", "unknown_faculty", "unrecognized_faculty" }

\* The finish_* methods with finish_hotline never written (as finish_location
\* is not).
finish_methods_without_hotline == {
    "success", "fail", "cant_help", "thanks", "checkpoint", "talk_to_them",
    "health_resources", "course_overload_response", "academic_resources",
    "join_clubs", "should_join_club", "hotline_idk",
    "talk_to_friends", "good_response" }

finish_methods == {
    "success", "fail", "cant_help", "thanks", "checkpoint", "talk_to_them",
    "health_resources", "course_overload_response", "academic_resources",
    "join_clubs", "should_join_club", "hotline_idk", "hotline",
    "talk_to_friends", "good_response" }

\* Neither ChatBot nor OxyCSBot defines get_office_hours.
other_methods == { "respond_using", "chat", "respond", "finish", "go_to_state" }

\* ------------------------------------------------------------------------
\* ChatBot
\* ------------------------------------------------------------------------

\* The attribute professor is set by the faculty handlers only.
NoAttribute == "<no attribute>"

\* ChatBot.__init__(default_state)
__init__(default_state) ==
    [ default_state |-> default_state,
      state         |-> default_state,
      prev_state    |-> "",
      finish_flag   |-> FALSE,
      greeted_flag  |-> FALSE,
      try_count     |-> 0,
      professor     |-> NoAttribute ]

\* hasattr(self, f'{prefix}_{name}') on an OxyCSBot.
hasattr(prefix, name) ==
    CASE prefix = "on_enter"     -> name \in on_enter_methods
      [] prefix = "respond_from" -> name \in respond_from_methods
      [] prefix = "finish"       -> name \in finish_methods
      [] OTHER                   -> FALSE

\* _check_states, run by __init__: the warnings printed, each as
\* <<prefix, state>> for a method self.<prefix>_<state> that is not defined.
\* The prefixes looked at are on_enter (but for the default state) and
\* respond_from.
_check_states(default_state) ==
    LET prefixes(s) == IF s # default_state
                       THEN <<"on_enter", "respond_from">>
                       ELSE <<"respond_from">>
    IN  { w \in UNION { { <<prefixes(s)[i], s>> : i \in DOMAIN prefixes(s) } :
                          s \in Range(STATES) } :
            ~hasattr(w[1], w[2]) }

\* The on_enter_* producers that only return a text.
on_enter_text(self, state) ==
    [self |-> self, ret |-> Str(<< <<"on_enter", state>> >>)]

on_enter_greeting(self) ==
    [ self |-> [self EXCEPT !.greeted_flag = TRUE],
      ret  |-> Str(<< <<"on_enter", "greeting">> >>) ]

on_enter_confused(self) ==
    [ self |-> [self EXCEPT !.try_count = self.try_count + 1],
      ret  |-> Str(<< <<"on_enter", "confused">> >>) ]

\* The f-string reads self.professor and then self.get_office_hours.
on_enter_specific_faculty(self) ==
    IF self.professor = NoAttribute \/ "get_office_hours" \notin other_methods
    THEN [self |-> self, ret |-> Exception("AttributeError")]
    ELSE [self |-> self, ret |-> Str(<< <<"on_enter", "specific_faculty">> >>)]

\* getattr(self, f'on_enter_{state}')()
on_enter(self, state) ==
    CASE state = "greeting"         -> on_enter_greeting(self)
      [] state = "confused"         -> on_enter_confused(self)
      [] state = "specific_faculty" -> on_enter_specific_faculty(self)
      [] OTHER                      -> on_enter_text(self, state)

\* go_to_state with the test on "confused" left out: prev_state is always
\* overwritten.
go_to_state_overwrites_prev(x, state) ==
    LET c == [x EXCEPT !.calls = Append(@, <<"go_to_state", state>>)]
    IN  IF state \notin Range(STATES) THEN raise(c, "AssertionError")
        ELSE IF state = c.self.default_state THEN raise(c, "AssertionError")
        ELSE IF state \notin on_enter_methods THEN raise(c, "AttributeError")
        ELSE LET e == on_enter(c.self, state)
             IN  IF e.ret.type = "raise"
                 THEN [c EXCEPT !.self = e.self, !.ret = e.ret]
                 ELSE [c EXCEPT
                         !.self = [e.self EXCEPT !.prev_state = e.self.state,
                                                 !.state = state],
                         !.ret = e.ret]

\* go_to_state with self.state assigned before prev_state is taken from it.
go_to_state_state_first(x, state) ==
    LET c == [x EXCEPT !.calls = Append(@, <<"go_to_state", state>>)]
    IN  IF state \notin Range(STATES) THEN raise(c, "AssertionError")
        ELSE IF state = c.self.default_state THEN raise(c, "AssertionError")
        ELSE IF state \notin on_enter_methods THEN raise(c, "AttributeError")
        ELSE LET e == on_enter(c.self, state)
             IN  IF e.ret.type = "raise"
                 THEN [c EXCEPT !.self = e.self, !.ret = e.ret]
                 ELSE [c EXCEPT
                         !.self = [e.self EXCEPT
                             !.prev_state =
                                 IF ~(state = "confused" /\ e.self.state = "confused")
                                 THEN state
                                 ELSE @,
                             !.state = state],
                         !.ret = e.ret]

\* go_to_state without the assignment of prev_state.
go_to_state_keeps_prev(x, state) ==
    LET c == [x EXCEPT !.calls = Append(@, <<"go_to_state", state>>)]
    IN  IF state \notin Range(STATES) THEN raise(c, "AssertionError")
        ELSE IF state = c.self.default_state THEN raise(c, "AssertionError")
        ELSE IF state \notin on_enter_methods THEN raise(c, "AttributeError")
        ELSE LET e == on_enter(c.self, state)
             IN  IF e.ret.type = "raise"
                 THEN [c EXCEPT !.self = e.self, !.ret = e.ret]
                 ELSE [c EXCEPT !.self = [e.self EXCEPT !.state = state],
                                !.ret = e.ret]

\* go_to_state with `self.finish_flag = False` next to the assignment of
\* self.state.
go_to_state_clears_flag(x, state) ==
    LET c == [x EXCEPT !.calls = Append(@, <<"go_to_state", state>>)]
    IN  IF state \notin Range(STATES) THEN raise(c, "AssertionError")
        ELSE IF state = c.self.default_state THEN raise(c, "AssertionError")
        ELSE IF state \notin on_enter_methods THEN raise(c, "AttributeError")
        ELSE LET e == on_enter(c.self, state)
             IN  IF e.ret.type = "raise"
                 THEN [c EXCEPT !.self = e.self, !.ret = e.ret]
                 ELSE [c EXCEPT
                         !.self = [e.self EXCEPT
                             !.prev_state =
                                 IF ~(state = "confused" /\ e.self.state = "confused")
                                 THEN e.self.state
                                 ELSE @,
                             !.state = state,
                             !.finish_flag = FALSE],
                         !.ret = e.ret]

\* go_to_state without the assertion on the default state.
go_to_state_without_default_assert(x, state) ==
    LET c == [x EXCEPT !.calls = Append(@, <<"go_to_state", state>>)]
    IN  IF state \notin Range(STATES) THEN raise(c, "AssertionError")
        ELSE IF state \notin on_enter_methods THEN raise(c, "AttributeError")
        ELSE LET e == on_enter(c.self, state)
             IN  IF e.ret.type = "raise"
                 THEN [c EXCEPT !.self = e.self, !.ret = e.ret]
                 ELSE [c EXCEPT
                         !.self = [e.self EXCEPT
                             !.prev_state =
                                 IF ~(state = "confused" /\ e.self.state = "confused")
                                 THEN e.self.state
                                 ELSE @,
                             !.state = state],
                         !.ret = e.ret]

\* ChatBot.go_to_state(state). The two `is "confused"` tests compare
\* identifier-like literals of one module, which CPython interns: they hold
\* exactly when the strings are equal.
go_to_state(x, state) ==
    LET c == [x EXCEPT !.calls = Append(@, <<"go_to_state", state>>)]
    IN  IF state \notin Range(STATES) THEN raise(c, "AssertionError")
        ELSE IF state = c.self.default_state THEN raise(c, "AssertionError")
        ELSE IF state \notin on_enter_methods THEN raise(c, "AttributeError")
        ELSE LET e == on_enter(c.self, state)
             IN  IF e.ret.type = "raise"
                 THEN [c EXCEPT !.self = e.self, !.ret = e.ret]
                 ELSE [c EXCEPT
                         !.self = [e.self EXCEPT
                             !.prev_state =
                                 IF ~(state = "confused" /\ e.self.state = "confused")
                                 THEN e.self.state
                                 ELSE @,
                             !.state = state],
                         !.ret = e.ret]

\* The finish_* producers: each returns a text.
finish_text(manner) == << <<"finish", manner>> >>

\* finish with the assignment to self.state left out of the else branch.
finish_keeps_state(x, manner) ==
    LET c == [x EXCEPT !.calls = Append(@, <<"finish", manner>>),
                       !.self.finish_flag = TRUE]
    IN  IF manner \notin finish_methods THEN raise(c, "AttributeError")
        ELSE LET response == finish_text(manner)
             IN  IF \/ manner = "success" \/ manner = "fail"
                    \/ manner = "thanks"  \/ manner = "cant_help"
                 THEN [c EXCEPT !.self.state = c.self.default_state,
                                !.self.finish_flag = FALSE,
                                !.ret = Str(response \o EndMarker)]
                 ELSE [c EXCEPT !.ret = Str(response)]

\* finish with finish_flag cleared in the else branch too.
finish_clears_flag(x, manner) ==
    LET c == [x EXCEPT !.calls = Append(@, <<"finish", manner>>),
                       !.self.finish_flag = TRUE]
    IN  IF manner \notin finish_methods THEN raise(c, "AttributeError")
        ELSE LET response == finish_text(manner)
             IN  IF \/ manner = "success" \/ manner = "fail"
                    \/ manner = "thanks"  \/ manner = "cant_help"
                 THEN [c EXCEPT !.self.state = c.self.default_state,
                                !.self.finish_flag = FALSE,
                                !.ret = Str(response \o EndMarker)]
                 ELSE [c EXCEPT !.self.state = c.self.default_state,
                                !.self.finish_flag = FALSE,
                                !.ret = Str(response)]

\* ChatBot.finish(manner)
finish(x, manner) ==
    LET c == [x EXCEPT !.calls = Append(@, <<"finish", manner>>),
                       !.self.finish_flag = TRUE]
    IN  IF manner \notin finish_methods THEN raise(c, "AttributeError")
        ELSE LET response == finish_text(manner)
             IN  IF \/ manner = "success" \/ manner = "fail"
                    \/ manner = "thanks"  \/ manner = "cant_help"
                 THEN [c EXCEPT !.self.state = c.self.default_state,
                                !.self.finish_flag = FALSE,
                                !.ret = Str(response \o EndMarker)]
                 ELSE [c EXCEPT !.self.state = c.self.default_state,
                                !.ret = Str(response)]

\* ------------------------------------------------------------------------
\* OxyCSBot: the respond_from_* handlers
\* ------------------------------------------------------------------------

\* One branch of an if/elif list: `"t1" in tags or "t2" in tags`, and with it
\* the flag of self the condition reads (flag), the assignment the branch
\* makes before it returns (assign), and the call it returns with.
Branch(tags, flag, assign, call, arg) ==
    [tags |-> tags, flag |-> flag, assign |-> assign, call |-> call, arg |-> arg]

If(tags, call, arg) == Branch(tags, "", "", call, arg)

IfFlag(tags, flag, call, arg) == Branch(tags, flag, "", call, arg)

\* The else branch, or the end of a list without one (the method returns None).
Else(call, arg) == Branch({}, "", "", call, arg)

NoElse == Branch({}, "", "", "return", "None")

\* The condition of a branch, on a Counter of tags (`in` tests its keys).
holds(branch, tags, self) ==
    /\ \E t \in branch.tags : t \in DOMAIN tags
    /\ CASE branch.flag = "finish_flag"     -> self.finish_flag
         [] branch.flag = "not finish_flag" -> ~self.finish_flag
         [] branch.flag = "greeted_flag"    -> self.greeted_flag
         [] OTHER                           -> TRUE

\* The body of a branch.
take(x, branch) ==
    LET y == IF branch.assign = "greeted_flag = False"
             THEN [x EXCEPT !.self.greeted_flag = FALSE]
             ELSE x
    IN  CASE branch.call = "go_to_state" -> go_to_state(y, branch.arg)
          [] branch.call = "finish"      -> finish(y, branch.arg)
          [] OTHER                       -> [y EXCEPT !.ret = None]

\* An if/elif/else statement read as a list of independent if statements,
\* each overwriting the result: the last branch whose condition holds is
\* taken.
if_elif_last_wins(x, state, branches, otherwise, tags) ==
    LET held == { i \in DOMAIN branches : holds(branches[i], tags, x.self) }
    IN  IF held = {}
        THEN take([x EXCEPT !.rules = Append(@, <<state, 0>>)], otherwise)
        ELSE LET i == CHOOSE i \in held : \A j \in held : i >= j
             IN  take([x EXCEPT !.rules = Append(@, <<state, i>>)], branches[i])

\* An if/elif/else statement: the first branch whose condition holds is taken.
if_elif(x, state, branches, otherwise, tags) ==
    LET held == { i \in DOMAIN branches : holds(branches[i], tags, x.self) }
    IN  IF held = {}
        THEN take([x EXCEPT !.rules = Append(@, <<state, 0>>)], otherwise)
        ELSE LET i == CHOOSE i \in held : \A j \in held : i <= j
             IN  take([x EXCEPT !.rules = Append(@, <<state, i>>)], branches[i])

\* The list of respond_from_waiting with a first branch that asks whose
\* office hours are wanted: `if "help" in tags:
\* return self.go_to_state("unknown_faculty")`.
branches_waiting_office_hours == <<
    If({"help"}, "go_to_state", "unknown_faculty"),
    If({"sad"}, "go_to_state", "why_sad"),
    If({"good"}, "finish", "good_response"),
    If({"social isolation"}, "go_to_state", "clubs"),
    If({"suicidal"}, "go_to_state", "suicidal_response_friends"),
    If({"anxious"}, "go_to_state", "anxious_breathe"),
    IfFlag({"thanks"}, "finish_flag", "finish", "thanks"),
    IfFlag({"thanks"}, "not finish_flag", "go_to_state", "confused"),
    If({"idk"}, "go_to_state", "why_sad"),
    If({"health issues"}, "finish", "health_resources"),
    If({"difficult courses"}, "finish", "academic_resources"),
    If({"courses overload"}, "finish", "course_overload_response"),
    If({"specific events"}, "go_to_state", "specific_event_response"),
    If({"help", "hi"}, "go_to_state", "greeting"),
    IfFlag({"success"}, "finish_flag", "finish", "success"),
    Branch({"success"}, "greeted_flag", "greeted_flag = False", "finish", "good_response"),
    IfFlag({"no"}, "finish_flag", "finish", "cant_help") >>

\* The list of respond_from_waiting with the conditions on thanks, success
\* and no read without `and self.finish_flag`.
branches_waiting_ungated == <<
    If({"sad"}, "go_to_state", "why_sad"),
    If({"good"}, "finish", "good_response"),
    If({"social isolation"}, "go_to_state", "clubs"),
    If({"suicidal"}, "go_to_state", "suicidal_response_friends"),
    If({"anxious"}, "go_to_state", "anxious_breathe"),
    If({"thanks"}, "finish", "thanks"),
    IfFlag({"thanks"}, "not finish_flag", "go_to_state", "confused"),
    If({"idk"}, "go_to_state", "why_sad"),
    If({"health issues"}, "finish", "health_resources"),
    If({"difficult courses"}, "finish", "academic_resources"),
    If({"courses overload"}, "finish", "course_overload_response"),
    If({"specific events"}, "go_to_state", "specific_event_response"),
    If({"help", "hi"}, "go_to_state", "greeting"),
    If({"success"}, "finish", "success"),
    Branch({"success"}, "greeted_flag", "greeted_flag = False", "finish", "good_response"),
    If({"no"}, "finish", "cant_help") >>

branches_waiting == <<
    If({"sad"}, "go_to_state", "why_sad"),
    If({"good"}, "finish", "good_response"),
    If({"social isolation"}, "go_to_state", "clubs"),
    If({"suicidal"}, "go_to_state", "suicidal_response_friends"),
    If({"anxious"}, "go_to_state", "anxious_breathe"),
    IfFlag({"thanks"}, "finish_flag", "finish", "thanks"),
    IfFlag({"thanks"}, "not finish_flag", "go_to_state", "confused"),
    If({"idk"}, "go_to_state", "why_sad"),
    If({"health issues"}, "finish", "health_resources"),
    If({"difficult courses"}, "finish", "academic_resources"),
    If({"courses overload"}, "finish", "course_overload_response"),
    If({"specific events"}, "go_to_state", "specific_event_response"),
    If({"help", "hi"}, "go_to_state", "greeting"),
    IfFlag({"success"}, "finish_flag", "finish", "success"),
    Branch({"success"}, "greeted_flag", "greeted_flag = False", "finish", "good_response"),
    IfFlag({"no"}, "finish_flag", "finish", "cant_help") >>

respond_from_waiting(x, message, tags) ==
    if_elif(x, "waiting", branches_waiting, Else("go_to_state", "confused"), tags)

branches_anxious_breathe == <<
    If({"yes"}, "finish", "success"),
    If({"no", "idk"}, "go_to_state", "why_not") >>

respond_from_anxious_breathe(x, message, tags) ==
    if_elif(x, "anxious_breathe", branches_anxious_breathe, NoElse, tags)

branches_suicidal_response_friends == <<
    If({"idk"}, "finish", "hotline_idk"),
    If({"no"}, "finish", "hotline"),
    If({"yes"}, "finish", "talk_to_friends") >>

respond_from_suicidal_response_friends(x, message, tags) ==
    if_elif(x, "suicidal_response_friends", branches_suicidal_response_friends,
            Else("go_to_state", "confused"), tags)

branches_why_sad == <<
    If({"sad"}, "go_to_state", "why_sad"),
    If({"good"}, "finish", "good_response"),
    If({"suicidal"}, "go_to_state", "suicidal_response_friends"),
    If({"anxious"}, "go_to_state", "anxious_breathe"),
    If({"social isolation"}, "go_to_state", "clubs"),
    IfFlag({"thanks"}, "finish_flag", "finish", "thanks"),
    IfFlag({"thanks"}, "not finish_flag", "go_to_state", "confused"),
    If({"idk"}, "go_to_state", "figure_out_feelings"),
    If({"health issues"}, "finish", "health_resources"),
    If({"difficult courses"}, "finish", "academic_resources"),
    If({"courses overload"}, "finish", "course_overload_response"),
    If({"specific events"}, "go_to_state", "specific_event_response"),
    If({"help", "hi"}, "go_to_state", "greeting"),
    IfFlag({"no"}, "finish_flag", "finish", "cant_help") >>

respond_from_why_sad(x, message, tags) ==
    if_elif(x, "why_sad", branches_why_sad, Else("go_to_state", "confused"), tags)

branches_figure_out_feelings == <<
    If({"sad", "yes", "no"}, "go_to_state", "why_sad"),
    If({"suicidal"}, "go_to_state", "suicidal_response_friends"),
    If({"anxious"}, "go_to_state", "anxious_breathe"),
    If({"social isolation"}, "go_to_state", "clubs"),
    If({"idk"}, "go_to_state", "why_sad"),
    If({"health issues"}, "finish", "health_resources"),
    If({"difficult courses"}, "finish", "academic_resources"),
    If({"courses overload"}, "finish", "course_overload_response"),
    If({"help", "hi"}, "go_to_state", "greeting") >>

respond_from_figure_out_feelings(x, message, tags) ==
    if_elif(x, "figure_out_feelings", branches_figure_out_feelings,
            Else("go_to_state", "confused"), tags)

branches_clubs == <<
    If({"no"}, "go_to_state", "why_not"),
    If({"yes"}, "finish", "join_clubs"),
    If({"idk"}, "finish", "should_join_club") >>

respond_from_clubs(x, message, tags) ==
    if_elif(x, "clubs", branches_clubs, Else("go_to_state", "confused"), tags)

branches_why_not == <<
    If({"sad"}, "go_to_state", "why_sad"),
    If({"good"}, "finish", "good_response"),
    If({"suicidal"}, "go_to_state", "suicidal_response_friends"),
    If({"anxious"}, "go_to_state", "anxious_breathe"),
    IfFlag({"thanks"}, "finish_flag", "finish", "thanks"),
    IfFlag({"thanks"}, "not finish_flag", "go_to_state", "confused"),
    If({"idk"}, "go_to_state", "figure_out_feelings"),
    If({"health issues"}, "finish", "health_resources"),
    If({"difficult courses"}, "finish", "academic_resources"),
    If({"failing academics"}, "go_to_state", "talk_to_professors"),
    If({"social isolation"}, "go_to_state", "clubs"),
    If({"courses overload"}, "finish", "course_overload_response"),
    If({"specific events"}, "go_to_state", "specific_event_response"),
    If({"help", "hi"}, "go_to_state", "greeting"),
    IfFlag({"no"}, "finish_flag", "finish", "cant_help") >>

respond_from_why_not(x, message, tags) ==
    if_elif(x, "why_not", branches_why_not, Else("go_to_state", "confused"), tags)

branches_talk_to_professors == <<
    If({"no"}, "finish", "talk_to_them"),
    If({"yes"}, "go_to_state", "other_factors") >>

respond_from_talk_to_professors(x, message, tags) ==
    if_elif(x, "talk_to_professors", branches_talk_to_professors,
            Else("go_to_state", "confused"), tags)

branches_other_factors == <<
    If({"sad"}, "go_to_state", "why_sad"),
    If({"good"}, "finish", "good_response"),
    If({"suicidal"}, "go_to_state", "suicidal_response_friends"),
    If({"anxious"}, "go_to_state", "anxious_breathe"),
    IfFlag({"thanks"}, "finish_flag", "finish", "thanks"),
    IfFlag({"thanks"}, "not finish_flag", "go_to_state", "confused"),
    If({"idk"}, "go_to_state", "figure_out_feelings"),
    If({"social isolation"}, "go_to_state", "clubs"),
    If({"health issues"}, "finish", "health_resources"),
    If({"difficult courses"}, "finish", "academic_resources"),
    If({"courses overload"}, "finish", "course_overload_response"),
    If({"specific events"}, "go_to_state", "specific_event_response"),
    If({"help", "hi"}, "go_to_state", "greeting"),
    IfFlag({"no"}, "finish_flag", "finish", "cant_help") >>

respond_from_other_factors(x, message, tags) ==
    if_elif(x, "other_factors", branches_other_factors,
            Else("go_to_state", "confused"), tags)

branches_specific_faculty == << If({"yes"}, "finish", "success") >>

respond_from_specific_faculty(x, message, tags) ==
    if_elif(x, "specific_faculty", branches_specific_faculty,
            Else("finish", "location"), tags)

\* for professor in self.PROFESSORS: the first professor found in tags is
\* stored in self.professor, and the loop returns.
respond_from_unknown_faculty(x, message, tags) ==
    LET found == { i \in DOMAIN PROFESSORS : PROFESSORS[i] \in DOMAIN tags }
    IN  IF found # {}
        THEN LET i == CHOOSE i \in found : \A j \in found : i <= j
             IN  go_to_state([x EXCEPT !.self.professor = PROFESSORS[i]],
                             "specific_faculty")
        ELSE go_to_state(x, "unrecognized_faculty")

respond_from_unrecognized_faculty(x, message, tags) ==
    LET found == { i \in DOMAIN PROFESSORS : PROFESSORS[i] \in DOMAIN tags }
    IN  IF found # {}
        THEN LET i == CHOOSE i \in found : \A j \in found : i <= j
             IN  go_to_state([x EXCEPT !.self.professor = PROFESSORS[i]],
                             "specific_faculty")
        ELSE finish(x, "fail")

\* The manners the respond_from_* methods call finish with.
finish_manners_used == {
    "good_response", "thanks", "health_resources", "academic_resources",
    "course_overload_response", "success", "cant_help", "hotline_idk",
    "hotline", "talk_to_friends", "join_clubs", "should_join_club",
    "talk_to_them", "location", "fail" }

\* The if/elif list of the handler of a state.
branches_of(state) ==
    CASE state = "waiting"             -> branches_waiting
      [] state = "anxious_breathe"     -> branches_anxious_breathe
      [] state = "suicidal_response_friends" -> branches_suicidal_response_friends
      [] state = "why_sad"             -> branches_why_sad
      [] state = "figure_out_feelings" -> branches_figure_out_feelings
      [] state = "clubs"               -> branches_clubs
      [] state = "why_not"             -> branches_why_not
      [] state = "talk_to_professors"  -> branches_talk_to_professors
      [] state = "other_factors"       -> branches_other_factors
      [] state = "specific_faculty"    -> branches_specific_faculty

RECURSIVE respond_using(_, _, _)

respond_from_greeting(x, message, tags) ==
    respond_using([x EXCEPT !.self.greeted_flag = TRUE], "waiting", message)

respond_from_specific_event_response(x, message, tags) ==
    respond_using(x, "why_sad", message)

\* respond_from_confused without the reset of try_count.
respond_from_confused_keeps_count(x, message, tags) ==
    IF x.self.try_count = 2
    THEN finish(x, "fail")
    ELSE IF x.self.prev_state = "confused"
         THEN raise(x, "RecursionError")
         ELSE respond_using(x, x.self.prev_state, message)

\* respond_from_confused with the test `self.try_count == 3`.
respond_from_confused_at_three(x, message, tags) ==
    IF x.self.try_count = 3
    THEN finish([x EXCEPT !.self.try_count = 0], "fail")
    ELSE IF x.self.prev_state = "confused"
         THEN raise(x, "RecursionError")
         ELSE respond_using(x, x.self.prev_state, message)

\* respond_from_confused answering from the default state, whatever
\* prev_state is.
respond_from_confused_from_default(x, message, tags) ==
    IF x.self.try_count = 2
    THEN finish([x EXCEPT !.self.try_count = 0], "fail")
    ELSE respond_using(x, x.self.default_state, message)

\* With prev_state "confused" and try_count other than 2 the method calls
\* itself with nothing changed until the interpreter raises RecursionError.
respond_from_confused(x, message, tags) ==
    IF x.self.try_count = 2
    THEN finish([x EXCEPT !.self.try_count = 0], "fail")
    ELSE IF x.self.prev_state = "confused"
         THEN raise(x, "RecursionError")
         ELSE respond_using(x, x.self.prev_state, message)

\* getattr(self, f'respond_from_{state}')(message, tags)
respond_from(x, state, message, tags) ==
    LET y == [x EXCEPT !.handlers = Append(@, state)]
    IN  CASE state = "waiting"      -> respond_from_waiting(y, message, tags)
          [] state = "greeting"     -> respond_from_greeting(y, message, tags)
          [] state = "anxious_breathe" ->
                 respond_from_anxious_breathe(y, message, tags)
          [] state = "suicidal_response_friends" ->
                 respond_from_suicidal_response_friends(y, message, tags)
          [] state = "why_sad"      -> respond_from_why_sad(y, message, tags)
          [] state = "specific_event_response" ->
                 respond_from_specific_event_response(y, message, tags)
          [] state = "figure_out_feelings" ->
                 respond_from_figure_out_feelings(y, message, tags)
          [] state = "clubs"        -> respond_from_clubs(y, message, tags)
          [] state = "why_not"      -> respond_from_why_not(y, message, tags)
          [] state = "talk_to_professors" ->
                 respond_from_talk_to_professors(y, message, tags)
          [] state = "other_factors" ->
                 respond_from_other_factors(y, message, tags)
          [] state = "confused"     -> respond_from_confused(y, message, tags)
          [] state = "specific_faculty" ->
                 respond_from_specific_faculty(y, message, tags)
          [] state = "unknown_faculty" ->
                 respond_from_unknown_faculty(y, message, tags)
          [] state = "unrecognized_faculty" ->
                 respond_from_unrecognized_faculty(y, message, tags)

\* OxyCSBot.respond_using(state, message)
respond_using(x, state, message) ==
    IF state \notin respond_from_methods
    THEN raise(x, "AttributeError")
    ELSE IF get_tags_raises(x.self, message)
    THEN raise(x, "TypeError")
    ELSE respond_from(x, state, message, get_tags(x.self, message))

\* ChatBot.respond(message)
respond(self, message) ==
    IF self.state \notin respond_from_methods
    THEN raise(Begin(self), "AttributeError")
    ELSE IF get_tags_raises(self, message)
    THEN raise(Begin(self), "TypeError")
    ELSE respond_from(Begin(self), self.state, message, get_tags(self, message))

\* ------------------------------------------------------------------------
\* The state machine: one OxyCSBot and the calls of respond on it
\* ------------------------------------------------------------------------

VARIABLES
    state,          \* self.state
    prev_state,     \* self.prev_state
    finish_flag,    \* self.finish_flag
    greeted_flag,   \* self.greeted_flag
    try_count,      \* self.try_count
    professor,      \* self.professor
    response,       \* what the last respond call returned (or raised)
    calls,          \* the go_to_state and finish calls of the last respond call
    handlers,       \* the respond_from_* handlers the last respond call ran
    rules,          \* the if/elif lists it went through and the branch taken
    run,            \* the number of utterances in a row, up to the last one,
                    \* for which no condition of the list held (at most MaxRun)
    bots,           \* the number of bots constructed so far
    other,          \* the second bot once constructed: its attributes (self)
                    \* and what its last respond call returned (ret)
    tag_message,    \* the message _get_tags is called with on its own
    counter         \* the Counter that call returned, None before the call

vars == << state, prev_state, finish_flag, greeted_flag, try_count, professor,
           response, calls, handlers, rules, run, bots, other, tag_message,
           counter >>

DefaultState == "waiting"

\* The bot as the object the methods work on.
Self ==
    [ default_state |-> DefaultState,
      state         |-> state,
      prev_state    |-> prev_state,
      finish_flag   |-> finish_flag,
      greeted_flag  |-> greeted_flag,
      try_count     |-> try_count,
      professor     |-> professor,
      TAGS          |-> bots ]

\* No condition of the if/elif list the call went through held.
Unrecognized(x) == x.rules # << >> /\ x.rules[Len(x.rules)][2] = 0

\* OxyCSBot(): super().__init__(default_state='waiting'); no call made yet.
Constructed ==
    LET self == __init__(DefaultState)
    IN  /\ state = self.state
        /\ prev_state = self.prev_state
        /\ finish_flag = self.finish_flag
        /\ greeted_flag = self.greeted_flag
        /\ try_count = self.try_count
        /\ professor = self.professor
        /\ response = None
        /\ calls = << >>
        /\ handlers = << >>
        /\ rules = << >>
        /\ run = 0
        /\ bots = 1
        /\ other = None

Init ==
    /\ Constructed
    /\ tag_message = << >>
    /\ counter = None

\* self.respond(message) on the bot, and its trace.
RespondTo(message) ==
    \E x \in { respond(Self, message) } :
        /\ state' = x.self.state
        /\ prev_state' = x.self.prev_state
        /\ finish_flag' = x.self.finish_flag
        /\ greeted_flag' = x.self.greeted_flag
        /\ try_count' = x.self.try_count
        /\ professor' = x.self.professor
        /\ response' = x.ret
        /\ calls' = x.calls
        /\ handlers' = x.handlers
        /\ rules' = x.rules
        /\ run' = IF Unrecognized(x)
                  THEN (IF run < MaxRun THEN run + 1 ELSE run)
                  ELSE 0
        /\ UNCHANGED << bots, other, tag_message, counter >>

\* One turn of the loop of chat(): self.respond(message), for a message that
\* is not an exit command. An exception ends the loop.
Respond ==
    /\ response.type # "raise"
    /\ \E message \in Utterances : RespondTo(message)

Next == Respond

Spec == Init /\ [][Next]_vars

\* ------------------------------------------------------------------------
\* The same conversation, the trace of the calls not kept: the states are
\* the attributes of the bot and its last response
\* ------------------------------------------------------------------------

\* One turn of the loop of chat(), as Respond.
RespondBot ==
    /\ response.type # "raise"
    /\ \E message \in Utterances :
          \E x \in { respond(Self, message) } :
              /\ state' = x.self.state
              /\ prev_state' = x.self.prev_state
              /\ finish_flag' = x.self.finish_flag
              /\ greeted_flag' = x.self.greeted_flag
              /\ try_count' = x.self.try_count
              /\ professor' = x.self.professor
              /\ response' = x.ret
              /\ UNCHANGED << calls, handlers, rules, run, bots, other,
                              tag_message, counter >>

BotNext == RespondBot

BotSpec == Init /\ [][BotNext]_vars

\* ------------------------------------------------------------------------
\* The bot called directly: go_to_state and finish with any argument, and
\* respond
\* ------------------------------------------------------------------------

\* The arguments go_to_state is called with: the states of STATES and a name
\* that is not in STATES.
StateArguments == Range(STATES) \cup { "undeclared" }

\* The arguments finish is called with: the manners that have a finish_*
\* method, the manner respond_from_specific_faculty uses and that has none,
\* and another name without a method.
MannerArguments == finish_methods \cup { "location", "unregistered" }

\* The frame of a direct call, copied to the variables.
Called(x) ==
    /\ state' = x.self.state
    /\ prev_state' = x.self.prev_state
    /\ finish_flag' = x.self.finish_flag
    /\ greeted_flag' = x.self.greeted_flag
    /\ try_count' = x.self.try_count
    /\ professor' = x.self.professor
    /\ response' = x.ret
    /\ calls' = x.calls
    /\ handlers' = x.handlers
    /\ rules' = x.rules
    /\ UNCHANGED << run, bots, other, tag_message, counter >>

\* bot.go_to_state(target); an exception is not caught.
GoToState ==
    /\ response.type # "raise"
    /\ \E target \in StateArguments :
          /\ target = "confused" => try_count < MaxTryCount
          /\ \E x \in { go_to_state(Begin(Self), target) } : Called(x)

\* bot.finish(manner); an exception is not caught.
Finish ==
    /\ response.type # "raise"
    /\ \E manner \in MannerArguments :
          \E x \in { finish(Begin(Self), manner) } : Called(x)

\* The messages the bot is fed between the direct calls, and the two bots
\* of the next section.
SessionUtterances == {
    <<"a","s","d","f">>,
    <<"s","a","d">>,
    <<"i","d","k">>,
    <<"y","e","s">>,
    <<"t","h","a","n","k","s">> }

\* One respond call on the bot (try_count, which a respond call resets only
\* when it is 2, stays within its cap).
RespondFirst ==
    /\ response.type # "raise"
    /\ \E message \in SessionUtterances : RespondTo(message)
    /\ try_count' <= MaxTryCount

ApiNext == GoToState \/ Finish \/ RespondFirst

ApiSpec == Init /\ [][ApiNext]_vars

\* ------------------------------------------------------------------------
\* Two bots: a second OxyCSBot is constructed while the first one chats
\* ------------------------------------------------------------------------

\* The second bot as the object the methods work on.
Other == [other.self EXCEPT !.TAGS = bots]

\* OxyCSBot(), a second time: __init__ runs _check_tags on the dict of the
\* class again.
ConstructOther ==
    /\ bots = 1
    /\ bots' = 2
    /\ other' = [ self |-> __init__(DefaultState) @@ [TAGS |-> 2], ret |-> None ]
    /\ UNCHANGED << state, prev_state, finish_flag, greeted_flag, try_count,
                    professor, response, calls, handlers, rules, run,
                    tag_message, counter >>

\* One respond call on the second bot.
RespondOther ==
    /\ bots = 2
    /\ other.ret.type # "raise"
    /\ \E message \in SessionUtterances :
          \E x \in { respond(Other, message) } :
              other' = [ self |-> x.self, ret |-> x.ret ]
    /\ UNCHANGED << state, prev_state, finish_flag, greeted_flag, try_count,
                    professor, response, calls, handlers, rules, run, bots,
                    tag_message, counter >>

TwoNext == RespondFirst \/ ConstructOther \/ RespondOther

TwoSpec == Init /\ [][TwoNext]_vars

\* ------------------------------------------------------------------------
\* _get_tags on its own: one call on a new bot, for a message that is read
\* character by character
\* ------------------------------------------------------------------------

\* The words of the messages: phrases of TAGS in lower and upper case, inside
\* longer words, next to "-", "_" and a digit, halves of a phrase of two
\* words, two phrases of one tag, and a word that is no phrase.
TestWords == {
    <<"s","a","d">>,
    <<"S","A","D">>,
    <<"s","A","d">>,
    <<"s","a","d","n","e","s","s">>,
    <<"u","n","s","a","d">>,
    <<"s","a","d","_","1">>,
    <<"s","a","d","-">>,
    <<"d","e","p","r","e","s","s","e","d">>,
    <<"h","i">>,
    <<"h","i","t">>,
    <<"n","o">>,
    <<"T","h","a","n","k","s">>,
    <<"d","o","n","'","t">>,
    <<"k","n","o","w">>,
    <<"a","s","d","f">> }

\* The messages: up to MaxWords words with a space between them.
TestMessages ==
    { join(ws) : ws \in UNION { [1..n -> TestWords] : n \in 0..MaxWords } }

\* A Counter as the value of the variable counter.
Counter(count) == [type |-> "Counter", value |-> count]

TagInit ==
    /\ Constructed
    /\ tag_message \in TestMessages
    /\ counter = None

\* self._get_tags(message)
GetTags ==
    /\ counter = None
    /\ counter' = Counter(_get_tags(tag_message))
    /\ UNCHANGED << state, prev_state, finish_flag, greeted_flag, try_count,
                    professor, response, calls, handlers, rules, run, bots,
                    other, tag_message >>

TagNext == GetTags

TagSpec == TagInit /\ [][TagNext]_vars

\* ------------------------------------------------------------------------
\* Properties
\* ------------------------------------------------------------------------

\* The last respond call ended in finish('fail'): the state is the default
\* state and the response carries the end-of-conversation marker.
FailFinished ==
    /\ calls = << <<"finish", "fail">> >>
    /\ state = DefaultState
    /\ response = Str(finish_text("fail") \o EndMarker)

\* The manner of the finish call of the last respond call is terminal.
TerminalManners == { "success", "fail", "thanks", "cant_help" }

\* C1. Two-strike escalation: in a topic state with try_count 0 the first
\* utterance for which no condition holds enters confused (try_count 1), and
\* the second such utterance in a row ends in finish('fail').
TwoStrikeEscalation ==
    [][ ( /\ state = "confused"
          /\ prev_state # DefaultState
          /\ try_count = 1
          /\ run = 1
          /\ run' = 2 )
        => FailFinished' ]_vars

\* C2. try_count is 0 after every respond call that ends in a finish or in a
\* go_to_state to a state other than confused.
TryCountResets ==
    ( /\ Len(calls) = 1
      /\ response.type = "str"
      /\ calls[1][1] = "finish" \/ calls[1][2] # "confused" )
    => try_count = 0

\* C3. A respond call in state confused with try_count 2 calls finish('fail'),
\* sets try_count to 0 and leaves the state at the default state, whatever
\* the utterance; it runs no handler but respond_from_confused and goes
\* through no if/elif list.
FailAtTwo ==
    [][ (state = "confused" /\ try_count = 2)
        => ( /\ FailFinished'
             /\ try_count' = 0
             /\ handlers' = <<"confused">>
             /\ rules' = << >> ) ]_vars

FailAtTwoWitness ==
    /\ handlers = <<"confused">>
    /\ FailFinished
    /\ try_count = 0

\* C4 as claimed: prev_state is never the confused state.
PrevStateNeverConfused == prev_state # "confused"

\* C4 as amended: prev_state is not the confused state while the current
\* state is confused (a go_to_state to confused never writes "confused" into
\* prev_state).
PrevStateNotConfusedInConfused ==
    state = "confused" => prev_state # "confused"

\* confused was entered again from confused, and prev_state kept the topic.
ConfusedTwiceWitness ==
    /\ state = "confused"
    /\ handlers # << >>
    /\ handlers[1] = "confused"
    /\ calls = << <<"go_to_state", "confused">> >>
    /\ try_count = 2
    /\ prev_state \notin { "confused", "" }

\* C5. Backtracking: in state confused with try_count other than 2, respond
\* answers every utterance as the handler of prev_state does with the same
\* flags: the same response, the same state and finish_flag afterwards, the
\* same if/elif list gone through, and respond_from_confused adds no list of
\* its own.
BacktrackEquivalence ==
    (state = "confused" /\ try_count # 2) =>
        \A message \in Utterances :
            \E a \in { respond(Self, message) } :
            \E b \in { respond([Self EXCEPT !.state = prev_state], message) } :
                /\ a.ret = b.ret
                /\ a.self.state = b.self.state
                /\ a.self.finish_flag = b.self.finish_flag
                /\ a.handlers = <<"confused">> \o b.handlers
                /\ a.rules = b.rules

\* The last respond call went from respond_from_confused to the handler of
\* prev_state, which went through its if/elif list.
BacktrackWitness ==
    /\ Len(handlers) >= 2
    /\ handlers[1] = "confused"
    /\ rules # << >>

FinishEffect ==
    ( /\ Len(calls) = 1
      /\ calls[1][1] = "finish"
      /\ calls[1][2] \in finish_methods )
    => ( /\ state = DefaultState
         /\ IF calls[1][2] \in TerminalManners
            THEN /\ ~finish_flag
                 /\ response = Str(<< <<"finish", calls[1][2]>> >> \o EndMarker)
            ELSE /\ finish_flag
                 /\ response = Str(<< <<"finish", calls[1][2]>> >>) )

\* A finish with a manner that is not terminal has happened.
FinishWitness ==
    /\ Len(calls) = 1
    /\ calls[1][1] = "finish"
    /\ calls[1][2] \notin TerminalManners
    /\ finish_flag
    /\ state = DefaultState

\* C8. Every respond call makes exactly one go_to_state or finish call and
\* returns a text.
ExactlyOneCall ==
    handlers # << >> =>
        ( /\ Len(calls) = 1
          /\ response.type = "str"
          /\ response.text # << >> )

\* C9. A respond call in a state other than confused for an utterance that
\* holds no condition of the if/elif list enters confused and adds one to
\* try_count.
NoRuleMeansConfused ==
    [][ ( /\ state # "confused"
          /\ rules' # << >>
          /\ rules'[Len(rules')][2] = 0 )
        => ( /\ state' = "confused"
             /\ try_count' = try_count + 1 ) ]_vars

\* C10. Utterances that hold no condition never come MaxRun in a row: a
\* finish('fail') back to the default state ends the run before.
FailEndsRun == run < MaxRun

\* C11. No respond call fed with utterances from the initial bot ends in an
\* exception: every go_to_state call it makes targets a state of STATES other
\* than the default state that has an on_enter_* method, every finish call
\* names a manner that has a finish_* method, and every handler looked up
\* (respond_from_<state>, for the state and for prev_state) is defined.
NoConfigurationError ==
    /\ response.type # "raise"
    /\ \A i \in DOMAIN calls :
          IF calls[i][1] = "go_to_state"
          THEN /\ calls[i][2] \in Range(STATES) \ { DefaultState }
               /\ calls[i][2] \in on_enter_methods
          ELSE calls[i][2] \in finish_methods
    /\ \A i \in DOMAIN handlers : handlers[i] \in respond_from_methods

\* The deepest topic state has been entered: other_factors, reached through
\* why_not and talk_to_professors.
NoConfigurationErrorWitness ==
    /\ state = "other_factors"
    /\ prev_state = "talk_to_professors"
    /\ calls = << <<"go_to_state", "other_factors">> >>
    /\ response = Str(<< <<"on_enter", "other_factors">> >>)

\* C12. go_to_state called with the default state or with a state that is not
\* in STATES raises AssertionError and leaves state, prev_state, try_count,
\* finish_flag and greeted_flag as they were (no on_enter_* method has run);
\* finish called with a manner that has no finish_* method raises.
FailFast ==
    [][ /\ ( /\ Len(calls') = 1
             /\ calls'[1][1] = "go_to_state"
             /\ \/ calls'[1][2] = DefaultState
                \/ calls'[1][2] \notin Range(STATES) )
           => ( /\ response' = Exception("AssertionError")
                /\ UNCHANGED << state, prev_state, try_count,
                                finish_flag, greeted_flag >> )
        /\ ( /\ Len(calls') = 1
             /\ calls'[1][1] = "finish"
             /\ calls'[1][2] \notin finish_methods )
           => response'.type = "raise" ]_vars

\* go_to_state was called with the default state in a state other than the
\* default one, after confused had been entered, and raised.
FailFastWitness ==
    /\ calls = << <<"go_to_state", DefaultState>> >>
    /\ response = Exception("AssertionError")
    /\ state # DefaultState
    /\ try_count > 0

\* C13. Construction reports every missing method: the warnings of
\* _check_states name every state of STATES without a respond_from_* method,
\* every state but the default one without an on_enter_* method, and every
\* manner the handlers call finish with that has no finish_* method; no
\* finish call of a handler's manner is left to raise AttributeError at its
\* first use.
ConstructionReportsMissing ==
    LET warnings == _check_states(DefaultState)
    IN  /\ \A s \in Range(STATES) :
              ~hasattr("respond_from", s) => <<"respond_from", s>> \in warnings
        /\ \A s \in Range(STATES) \ { DefaultState } :
              ~hasattr("on_enter", s) => <<"on_enter", s>> \in warnings
        /\ \A m \in finish_manners_used :
              ~hasattr("finish", m) => <<"finish", m>> \in warnings
        /\ \A i \in DOMAIN calls :
              ( /\ calls[i][1] = "finish"
                /\ calls[i][2] \in finish_manners_used
                /\ response = Exception("AttributeError") )
              => <<"finish", calls[i][2]>> \in warnings

\* A bot as it is when no other bot has been constructed: the dict of its
\* class is as its own construction left it.
Alone(self) == [self EXCEPT !.TAGS = 1]

\* C14. Two bots do not interfere: every step is the construction of the
\* second bot, which leaves the first as it is, or a respond call on one bot
\* that leaves the attributes and the last response of the other unchanged
\* and gives that bot the state, prev_state, try_count, finish_flag,
\* greeted_flag and the response the same call gives it when it is alone.
SessionIndependence ==
    [][ \/ /\ other = None
           /\ other' # None
           /\ UNCHANGED << state, prev_state, try_count, finish_flag,
                           greeted_flag, professor, response >>
        \/ /\ other' = other
           /\ \E message \in SessionUtterances :
                 \E x \in { respond(Alone(Self), message) } :
                     /\ state' = x.self.state
                     /\ prev_state' = x.self.prev_state
                     /\ try_count' = x.self.try_count
                     /\ finish_flag' = x.self.finish_flag
                     /\ greeted_flag' = x.self.greeted_flag
                     /\ response' = x.ret
        \/ /\ other # None
           /\ UNCHANGED << state, prev_state, try_count, finish_flag,
                           greeted_flag, professor, response >>
           /\ \E message \in SessionUtterances :
                 \E x \in { respond(Alone(other.self), message) } :
                     /\ other'.self.state = x.self.state
                     /\ other'.self.prev_state = x.self.prev_state
                     /\ other'.self.try_count = x.self.try_count
                     /\ other'.self.finish_flag = x.self.finish_flag
                     /\ other'.self.greeted_flag = x.self.greeted_flag
                     /\ other'.ret = x.ret ]_vars

\* Both bots are in the middle of a conversation, in different states, each
\* having answered after the other was constructed.
SessionIndependenceWitness ==
    /\ bots = 2
    /\ state = "confused"
    /\ try_count = 1
    /\ other.self.state = "figure_out_feelings"
    /\ other.self.try_count = 0
    /\ other.ret = Str(<< <<"on_enter", "figure_out_feelings">> >>)

\* One utterance for each set of tags an utterance of the model has.
KeyUtterance ==
    [keys \in { DOMAIN UtteranceTags[m] : m \in Utterances } |->
        CHOOSE m \in Utterances : DOMAIN UtteranceTags[m] = keys] @@ << >>

\* C15. First match wins: whatever the state and the utterance, the handler
\* takes the first branch of its if/elif list whose condition holds on the
\* tags (no condition before it holds, and the call made is that branch's);
\* the outcome depends on the set of tags only, not on their counts; and in
\* the default state every utterance with the tag sad goes to why_sad,
\* whichever other tags it has.
FirstMatchWins ==
    \A message \in Utterances :
        \E tags \in { UtteranceTags[message] } :
        \E x \in { respond(Self, message) } :
            /\ \E self \in { [Self EXCEPT !.greeted_flag =
                                  @ \/ "greeting" \in Range(x.handlers)] } :
                  \A n \in DOMAIN x.rules :
                      \E branches \in { branches_of(x.rules[n][1]) } :
                      \E i \in { x.rules[n][2] } :
                          /\ \A j \in DOMAIN branches :
                                (i = 0 \/ j < i) => ~holds(branches[j], tags, self)
                          /\ i > 0 =>
                                /\ holds(branches[i], tags, self)
                                /\ x.calls =
                                      << <<branches[i].call, branches[i].arg>> >>
            /\ (state = DefaultState /\ "sad" \in DOMAIN tags)
                  => x.calls = << <<"go_to_state", "why_sad">> >>
            /\ \E other_message \in { KeyUtterance[DOMAIN tags] } :
                  other_message # message =>
                      \E y \in { respond(Self, other_message) } :
                          /\ x.ret = y.ret
                          /\ x.self = y.self
                          /\ x.calls = y.calls

\* The bot is in the default state after a finish that was not terminal, and
\* an utterance with the tags sad and thanks, which holds the condition of
\* the branch of sad and that of the later branch of thanks, goes to why_sad.
FirstMatchWinsWitness ==
    /\ state = DefaultState
    /\ finish_flag
    /\ response.type = "str"
    /\ \E message \in Utterances :
          /\ {"sad", "thanks"} \subseteq DOMAIN UtteranceTags[message]
          /\ respond(Self, message).calls = << <<"go_to_state", "why_sad">> >>
          /\ respond(Self, message).rules = << <<"waiting", 1>> >>

\* The last call of the step's trace is a call of the method named, and it
\* returned.
Returned(method) ==
    /\ calls' # << >>
    /\ calls'[Len(calls')][1] = method
    /\ response'.type = "str"

\* C16. The bot starts in the default state; every finish call that returns,
\* terminal or not, leaves the state at the default state; no go_to_state call
\* leaves it there; and the state becomes the default state through a finish
\* call only.
DefaultStateOnlyByFinish ==
    /\ state = DefaultState
    /\ [][ /\ Returned("finish") => state' = DefaultState
           /\ Returned("go_to_state") => state' # DefaultState
           /\ (state # DefaultState /\ state' = DefaultState)
                 => Returned("finish") ]_vars

\* A finish that was not terminal brought the bot back to the default state
\* after a go_to_state had left it.
DefaultStateOnlyByFinishWitness ==
    /\ state = DefaultState
    /\ prev_state \notin { "", DefaultState }
    /\ calls = << <<"finish", "join_clubs">> >>
    /\ response = Str(finish_text("join_clubs"))
    /\ finish_flag

\* The phrase occurs in the message, as a whole word or inside one, in any
\* letter case: at some place of the lower-cased message the characters are
\* those of the lower-cased phrase.
OccursIn(phrase, text) ==
    \E i \in 1..Len(text) :
        /\ i + Len(phrase) - 1 <= Len(text)
        /\ SubSeq(lower(text), i, i + Len(phrase) - 1) = lower(phrase)

\* The bot is as __init__ left it.
ContextUntouched ==
    /\ state = DefaultState
    /\ prev_state = ""
    /\ ~finish_flag
    /\ ~greeted_flag
    /\ try_count = 0
    /\ professor = NoAttribute
    /\ response = None

\* C17. _get_tags returns an empty Counter for every message in which no
\* phrase of TAGS occurs, the empty message among them, and leaves the bot as
\* it was.
NoPhraseNoTags ==
    counter # None =>
        /\ ContextUntouched
        /\ (\A i \in DOMAIN TAGS : ~OccursIn(TAGS[i][1], tag_message))
              => DOMAIN counter.value = {}
        /\ tag_message = << >> => DOMAIN counter.value = {}

\* _get_tags has returned for a message of two words that has no phrase.
NoPhraseNoTagsWitness ==
    /\ counter = Counter(<< >>)
    /\ tag_message = <<"a","s","d","f"," ","a","s","d","f">>

\* The tags of the dict TAGS.
AllTags ==
    UNION { { TAGS[i][2].value[k].value : k \in DOMAIN TAGS[i][2].value } :
            i \in DOMAIN TAGS }

\* The phrases of TAGS that have the tag and match somewhere in the text.
PhrasesPresent(tag, text) ==
    { i \in DOMAIN TAGS :
        /\ \E k \in DOMAIN TAGS[i][2].value : TAGS[i][2].value[k].value = tag
        /\ re_search_b(phrase_lower[i], lower(text)) }

\* The count of a key in a Counter: 0 for a key it does not have.
CountOf(c, key) == IF key \in DOMAIN c THEN c[key] ELSE 0

swapcase(text) ==
    [i \in DOMAIN text |->
        IF text[i] \in DOMAIN ToLower THEN ToLower[text[i]]
        ELSE IF \E c \in DOMAIN ToLower : ToLower[c] = text[i]
             THEN CHOOSE c \in DOMAIN ToLower : ToLower[c] = text[i]
             ELSE text[i]]

\* The text in upper case.
upper(text) == swapcase(lower(text))

\* The phrase stands in the text as a whole word, whatever the letter case:
\* at some place the characters are those of the phrase, and neither the
\* character before that place nor the one after it is a word character.
\* (Every phrase of TAGS begins and ends with a word character.)
WholeWordIn(phrase, text) ==
    \E i \in 1..Len(text) :
        /\ i + Len(phrase) - 1 <= Len(text)
        /\ SubSeq(lower(text), i, i + Len(phrase) - 1) = lower(phrase)
        /\ i > 1 => text[i - 1] \notin WordChars
        /\ i + Len(phrase) <= Len(text) => text[i + Len(phrase)] \notin WordChars

\* The phrases of TAGS that have the tag and stand in the text as a whole
\* word.
WholeWordPhrases(tag, text) ==
    { i \in DOMAIN TAGS :
        /\ \E k \in DOMAIN TAGS[i][2].value : TAGS[i][2].value[k].value = tag
        /\ WholeWordIn(TAGS[i][1], text) }

\* C19. _get_tags matches whatever the letter case and whole words only: the
\* message in lower case, in upper case and with the case of every letter
\* changed has the same counts, and a phrase counts for its tags only if it
\* stands in the message as a whole word, not if it is only part of a longer
\* word.
CaseInsensitiveWholeWord ==
    counter # None =>
        /\ counter.value = _get_tags(lower(tag_message))
        /\ counter.value = _get_tags(upper(tag_message))
        /\ counter.value = _get_tags(swapcase(tag_message))
        /\ \A tag \in AllTags \cup DOMAIN counter.value :
              CountOf(counter.value, tag)
                  = Cardinality(WholeWordPhrases(tag, tag_message))

\* _get_tags has returned for "sadness SAD": the phrase "sad" inside
\* "sadness" counts for nothing, the word "SAD" counts for the tag sad.
CaseInsensitiveWholeWordWitness ==
    /\ tag_message = <<"s","a","d","n","e","s","s"," ","S","A","D">>
    /\ counter = Counter([k \in {"sad"} |-> 1])

\* The tags respond_from_waiting tests before thanks, and before success.
BeforeThanks == {"sad", "good", "social isolation", "suicidal", "anxious"}

BeforeSuccess ==
    BeforeThanks \cup {"thanks", "idk", "health issues", "difficult courses",
                       "courses overload", "specific events", "help", "hi"}

\* The outcome x of a respond call is the terminal finish of the manner.
TerminalFinish(x, manner) ==
    /\ x.calls = << <<"finish", manner>> >>
    /\ x.self.state = DefaultState
    /\ ~x.self.finish_flag
    /\ x.ret = Str(finish_text(manner) \o EndMarker)

\* In the default state, what respond does with an utterance that has none
\* of the tags tested earlier: thanks is the terminal finish('thanks') with
\* finish_flag and confused without it; success is the terminal
\* finish('success') with finish_flag and is not without it; no (when the
\* branches of success are not taken) is the terminal finish('cant_help')
\* with finish_flag and confused without it.
AcknowledgementGated ==
    (state = DefaultState /\ response.type # "raise") =>
        \A message \in Utterances :
            \E tags \in { DOMAIN UtteranceTags[message] } :
                /\ ("thanks" \in tags /\ tags \cap BeforeThanks = {}) =>
                      \E x \in { respond(Self, message) } :
                          IF finish_flag
                          THEN TerminalFinish(x, "thanks")
                          ELSE /\ x.calls = << <<"go_to_state", "confused">> >>
                               /\ x.self.state = "confused"
                /\ ("success" \in tags /\ tags \cap BeforeSuccess = {}) =>
                      \E x \in { respond(Self, message) } :
                          IF finish_flag
                          THEN TerminalFinish(x, "success")
                          ELSE x.calls # << <<"finish", "success">> >>
                /\ ( /\ "no" \in tags
                     /\ tags \cap BeforeSuccess = {}
                     /\ "success" \in tags => ~finish_flag /\ ~greeted_flag ) =>
                      \E x \in { respond(Self, message) } :
                          IF finish_flag
                          THEN TerminalFinish(x, "cant_help")
                          ELSE /\ x.calls = << <<"go_to_state", "confused">> >>
                               /\ x.self.state = "confused"

\* One respond call: a finish of the manners thanks, success or cant_help
\* made by respond_from_waiting is made with finish_flag true; and
\* finish_flag is true after the call exactly if the call made a finish that
\* was not terminal, or made none and the flag was true before.
AcknowledgementStep ==
    /\ ( /\ Len(calls') = 1
         /\ calls'[1][1] = "finish"
         /\ calls'[1][2] \in {"thanks", "success", "cant_help"}
         /\ handlers'[Len(handlers')] = "waiting" ) => finish_flag
    /\ finish_flag' =
          IF \E n \in DOMAIN calls' : calls'[n][1] = "finish"
          THEN \E n \in DOMAIN calls' :
                  /\ calls'[n][1] = "finish"
                  /\ calls'[n][2] \notin TerminalManners
          ELSE finish_flag

\* C20. Acknowledgements are gated by finish_flag in the default state
\* (thanks: terminal finish('thanks') with the flag, confused without it;
\* success and no: terminal finish('success') and finish('cant_help') only
\* with the flag), and the flag, false at construction, is true exactly from
\* a finish that is not terminal to the next terminal finish: so these
\* terminal acknowledgements occur only between the two.
AcknowledgementGating ==
    /\ ~finish_flag
    /\ []AcknowledgementGated
    /\ [][AcknowledgementStep]_vars

\* The last respond call was made in the default state with finish_flag
\* true, after a finish that was not terminal, and ended in the terminal
\* finish('thanks') by the branch of thanks of respond_from_waiting.
AcknowledgementGatingWitness ==
    /\ calls = << <<"finish", "thanks">> >>
    /\ rules = << <<"waiting", 6>> >>
    /\ handlers = <<"waiting">>
    /\ state = DefaultState
    /\ ~finish_flag

\* try_count in a state: 0, 1 or 2, and not 0 in the state confused.
TryCountInRange ==
    /\ try_count \in {0, 1, 2}
    /\ state = "confused" => try_count >= 1

\* try_count over one respond call: a call that enters confused adds one; a
\* call that runs the fail branch of respond_from_confused (state confused,
\* try_count 2) sets it to 0; any other call leaves it as it is.
TryCountStep ==
    IF calls' = << <<"go_to_state", "confused">> >> /\ response'.type # "raise"
    THEN /\ try_count' = try_count + 1
         /\ state' = "confused"
    ELSE IF state = "confused" /\ try_count = 2
    THEN /\ try_count' = 0
         /\ handlers' = <<"confused">>
         /\ calls' = << <<"finish", "fail">> >>
    ELSE try_count' = try_count

\* C21. After any sequence of respond calls try_count is 0, 1 or 2 and at
\* least 1 in the state confused; it changes only by +1 on entering confused
\* and by the reset to 0 in the fail branch of respond_from_confused.
TryCountBounded ==
    /\ []TryCountInRange
    /\ [][TryCountStep]_vars

\* The bot is in the state confused for the second time in a row, with
\* try_count 2, the largest value.
TryCountBoundedWitness ==
    /\ state = "confused"
    /\ try_count = 2
    /\ calls = << <<"go_to_state", "confused">> >>
    /\ handlers[1] = "confused"

\* prev_state in the state confused: a state of STATES that has a
\* respond_from_* method, and neither confused nor the "" of __init__.
PrevStateDispatchable ==
    state = "confused" =>
        /\ prev_state \in Range(STATES)
        /\ prev_state \in respond_from_methods
        /\ prev_state # "confused"
        /\ prev_state # ""

\* prev_state over one respond call that ends in confused: entered from
\* another state, prev_state is that state; entered again from confused, it
\* is kept; and the handler the call re-dispatched to from confused is the
\* one of prev_state, which was found.
PrevStateStep ==
    state' = "confused" =>
        /\ state # "confused" => prev_state' = state
        /\ state = "confused" =>
              /\ prev_state' = prev_state
              /\ Len(handlers') = 2 \/ Len(handlers') = 3
              /\ handlers'[1] = "confused"
              /\ handlers'[2] = prev_state
              /\ response'.type = "str"

\* C22. In the state confused prev_state is a declared state with a
\* respond_from_* method, not confused and not "": it is the state that held
\* before confused was entered, and the re-dispatch of respond_from_confused
\* finds its handler.
PrevStateIsTopic ==
    /\ []PrevStateDispatchable
    /\ [][PrevStateStep]_vars

\* The bot went from why_sad to confused and, on a second utterance that
\* respond_from_why_sad has no branch for, to confused again: prev_state is
\* still why_sad.
PrevStateIsTopicWitness ==
    /\ state = "confused"
    /\ prev_state = "why_sad"
    /\ try_count = 2
    /\ handlers = <<"confused", "why_sad">>

\* The step is a call of the method made on the bot itself, not by a
\* handler of respond: one call and no handler.
CalledDirectly(method) ==
    /\ handlers' = << >>
    /\ Len(calls') = 1
    /\ calls'[1][1] = method

\* C23. Frame conditions: a go_to_state call leaves finish_flag as it is,
\* changes try_count only for the target confused and greeted_flag only
\* for the target greeting; a finish call leaves prev_state, try_count and
\* greeted_flag as they are; and a respond call that makes no finish call
\* leaves finish_flag as it is, whatever the transitions it makes.
FrameConditions ==
    [][ /\ CalledDirectly("go_to_state") =>
              /\ finish_flag' = finish_flag
              /\ try_count' # try_count => calls'[1][2] = "confused"
              /\ greeted_flag' # greeted_flag => calls'[1][2] = "greeting"
        /\ CalledDirectly("finish") =>
              /\ prev_state' = prev_state
              /\ try_count' = try_count
              /\ greeted_flag' = greeted_flag
        /\ (\A n \in DOMAIN calls' : calls'[n][1] # "finish") =>
              finish_flag' = finish_flag ]_vars

\* After a finish that was not terminal, go_to_state('greeting') was called
\* on the bot: state and greeted_flag are changed, finish_flag is still
\* true.
FrameConditionsWitness ==
    /\ handlers = << >>
    /\ calls = << <<"go_to_state", "greeting">> >>
    /\ state = "greeting"
    /\ greeted_flag
    /\ finish_flag
    /\ try_count = 1

\* The handlers one respond call can run one after the other: the handler
\* of the state, then those it re-dispatches to with respond_using.
Redispatches(from, to) ==
    \/ from = "confused" /\ to # "confused"
    \/ from = "greeting" /\ to = "waiting"
    \/ from = "specific_event_response" /\ to = "why_sad"

\* C24. Every respond call returns (with a text, None or an exception other
\* than RecursionError) after a chain of at most three handlers, no handler
\* twice: the handler of the state, and after confused that of prev_state,
\* after greeting that of waiting, after specific_event_response that of
\* why_sad.
RespondTerminates ==
    [][ /\ response' # Exception("RecursionError")
        /\ Len(handlers') <= 3
        /\ \A i, j \in DOMAIN handlers' : i # j => handlers'[i] # handlers'[j]
        /\ handlers' # << >> => handlers'[1] = state
        /\ \A i \in 1..(Len(handlers') - 1) :
              Redispatches(handlers'[i], handlers'[i + 1]) ]_vars

\* A respond call made in confused with prev_state greeting ran the three
\* handlers confused, greeting and waiting.
RespondTerminatesWitness ==
    /\ handlers = <<"confused", "greeting", "waiting">>
    /\ response.type = "str"

\* The three states of the office-hours flow.
FacultyStates == {"specific_faculty", "unknown_faculty", "unrecognized_faculty"}

\* Utterances that name a professor: by first name, by last name, and two
\* professors at once.
ProfessorMessages == {
    <<"k","a","t","h","r","y","n">>,
    <<"l","i">>,
    <<"j","e","f","f"," ","m","i","l","l","e","r">>,
    <<"c","e","l","i","a"," ","h","s","i","n","g","-","h","a","u">> }

\* C25. No sequence of utterances makes specific_faculty, unknown_faculty or
\* unrecognized_faculty the state or prev_state, and respond never assigns
\* self.professor; this holds too for the next utterance when it names a
\* professor.
FacultyUnreachable ==
    /\ state \notin FacultyStates
    /\ prev_state \notin FacultyStates
    /\ professor = NoAttribute
    /\ \A n \in DOMAIN handlers : handlers[n] \notin FacultyStates
    /\ \A n \in DOMAIN calls : calls[n][2] \notin FacultyStates
    /\ response.type # "raise" =>
          \A message \in ProfessorMessages :
              \E x \in { respond(Self, message) } :
                  /\ x.self.state \notin FacultyStates
                  /\ x.self.prev_state \notin FacultyStates
                  /\ x.self.professor = NoAttribute
                  /\ \A n \in DOMAIN x.handlers : x.handlers[n] \notin FacultyStates

\* The bot was asked for help and is in greeting; an utterance that names
\* Kathryn has the tag kathryn and is answered with confused.
FacultyUnreachableWitness ==
    /\ state = "greeting"
    /\ calls = << <<"go_to_state", "greeting">> >>
    /\ professor = NoAttribute
    /\ "kathryn" \in DOMAIN _get_tags(<<"k","a","t","h","r","y","n">>)
    /\ respond(Self, <<"k","a","t","h","r","y","n">>).calls
          = << <<"go_to_state", "confused">> >>

====
